---------------------------- MODULE Spec2Model ----------------------------
(***************************************************************************)
(* Model of the IPCD python client, clients/python/src/ipcdclient/client.py *)
(*                                                                         *)
(* One IpcdClient object: its device registry, its asyncio outbound queue,  *)
(* the event loop shared by all connect() calls, and per connection attempt *)
(* the connect_loop coroutine, its websocket, its reader task, its writer   *)
(* task and the dispatch tasks the reader creates.                          *)
(***************************************************************************)
EXTENDS Integers, Sequences, FiniteSets, TLC

(* ------------------------------ bounds --------------------------------- *)
MaxConn    == 2     \* connect() calls made by the caller
MaxDevices == 2     \* add_device() calls made by the caller
MaxCalls   == 2     \* on_value_change() / report() calls made by the caller
MaxInbound == 2     \* messages the server sends, over all connections
MaxDisc    == 1     \* disconnect() calls made by the caller
MaxInputs  == 3     \* all of add_device, on_value_change, report, disconnect
                    \* calls and server messages together

Conns == 1..MaxConn

(* ----------------------------- constants ------------------------------- *)
IPCD_VERSION == "1.0"

(* Device.__init__(vendor, model, sn, ipcd_version=None): the attributes   *)
(* of the new object.  ipcd_version is assigned only under                 *)
(* "if not ipcd_version"; _client is the variable backref.                 *)
Device(vendor, model, sn, ipcd_version) ==
  IF ipcd_version \in {"None", ""}
    THEN [vendor |-> vendor, model |-> model, sn |-> sn,
          ipcd_version |-> IPCD_VERSION]
    ELSE [vendor |-> vendor, model |-> model, sn |-> sn]

(* The device objects the caller registers, built with the default version. *)
DeviceObjs == { Device("Acme", "X1", "123", "None"),
                Device("Acme", "X1", "456", "None") }

(* Arguments of Device(...) the caller may pass.                           *)
Vendors     == {"Acme", "Bolt"}
Models      == {"X1", "X2"}
Serials     == {"123", "456"}
VersionArgs == {"None", "1.0", "1.1", "2.0"}
DeviceArgs  == [vendor : Vendors, model : Models, sn : Serials,
                ipcd_version : VersionArgs]

(* The clients the caller constructs and the hostnames it passes.          *)
ClientIds == {"A", "B"}
Hostnames == {"", "None", "wss://host"}
ClientAttrs == {"hostname", "ipcd_version", "pool", "devices", "queue", "logger"}

(* Caller payloads: one json.dumps can encode, one it cannot (TypeError).  *)
GoodPayload == "temp72"
BadPayload  == "object"
Payloads    == {GoodPayload, BadPayload}

(* Texts the server sends: a well-formed command, a JSON object without    *)
(* discriminator, and text that is no JSON.                                *)
InboundKinds == {"valid", "nodisc", "notjson"}

(* ------------------------------- state --------------------------------- *)
VARIABLES
  devices,    \* self.devices: the registry, a sequence of device objects
  queue,      \* self.queue: items of the asyncio.Queue, oldest first
  getters,    \* queue._getters: writers suspended in queue.get(), oldest first
  loopOwner,  \* connection whose thread is inside run_until_complete, 0 if none
  nconn,      \* number of connect() calls made
  cl,         \* cl[c]: position of connect_loop of attempt c
  regIdx,     \* regIdx[c]: index of the next device of the handshake for-loop
  sock,       \* sock[c]: "none", "open", "closed"
  wire,       \* wire[c]: what has been written to the websocket of c
  inbound,    \* inbound[c]: texts received on the websocket of c, not yet read
  rd,         \* rd[c]: reader task: "none", "recv", "done"
  wr,         \* wr[c]: writer task: "none", "get", "parked", "lost", "send", "done"
  held,       \* held[c]: the item writer c has dequeued and is sending
  tasks,      \* dispatch tasks created by the readers
  calls,      \* history: the on_value_change / report calls made, in order
  nsent,      \* number of messages the server has sent
  ndisc,      \* number of disconnect() calls made
  self,       \* self[k]: the client object the k-th IpcdClient(...) built
  backref,    \* backref[d]: device._client, "None" or the client that holds d
  otherDevices, \* self.devices of client B
  probe       \* a Device(...) under construction and what to_obj returned

vars == << devices, queue, getters, loopOwner, nconn, cl, regIdx, sock, wire,
           inbound, rd, wr, held, tasks, calls, nsent, ndisc,
           self, backref, otherDevices, probe >>

fieldVars == << devices, queue, getters, loopOwner, nconn, cl, regIdx, sock,
                wire, inbound, rd, wr, held, tasks, calls, nsent, ndisc >>

objVars == << self, otherDevices, probe >>

connVars == << cl, regIdx, sock, wire, inbound, rd, wr, held >>

NoItem == [id |-> 0, payload |-> << >>]

(* ------------------------- pure functions ------------------------------ *)

(* json.dumps accepting every payload.                                     *)
Serializable_Always(p) == TRUE

(* json.dumps of a payload value the caller passed.                        *)
Serializable(p) == p # BadPayload

(* The 'device' sub-object without the serial number.                      *)
DeviceObj_NoSn(device) ==
  << "{", "ipcdver", IPCD_VERSION, "vendor", device.vendor,
          "model", device.model, "}" >>

(* The 'device' sub-object built in on_value_change, report and the        *)
(* handshake: the client's ipcd_version and the device's attributes.       *)
DeviceObj(device) ==
  << "{", "ipcdver", IPCD_VERSION, "vendor", device.vendor,
          "model", device.model, "sn", device.sn, "}" >>

(* json.dumps(data) of on_value_change, as the sequence of its tokens.     *)
ValueChangeText(device, message) ==
  << "{", "device" >> \o DeviceObj(device)
     \o << "events", "[", "onValueChanges", "]", "valueChanges", message, "}" >>

(* json.dumps(data) of report (the second definition, which enqueues).     *)
ReportText(device, message) ==
  << "{", "device" >> \o DeviceObj(device) \o << "report", message, "}" >>

(* json.dumps(data) of the handshake.                                      *)
RegistrationText(device) ==
  << "{", "device" >> \o DeviceObj(device)
     \o << "events", "[", "onBoot", "onConnect", "]", "}" >>

IsRegistration(item) == item.id = 0

(* json.loads(text) of a token sequence: an object becomes a function from *)
(* its keys to its values (a later key wins), an array a sequence, every   *)
(* other token is an atom.  The result is [v |-> value, n |-> next index]. *)
RECURSIVE ParseValue(_, _), ParseMembers(_, _, _), ParseItems(_, _, _)

ParseValue(toks, i) ==
  IF toks[i] = "{" THEN ParseMembers(toks, i + 1, << >>)
  ELSE IF toks[i] = "[" THEN ParseItems(toks, i + 1, << >>)
  ELSE [v |-> toks[i], n |-> i + 1]

ParseMembers(toks, i, acc) ==
  IF toks[i] = "}" THEN [v |-> acc, n |-> i + 1]
  ELSE LET r == ParseValue(toks, i + 1)
       IN  ParseMembers(toks, r.n, (toks[i] :> r.v) @@ acc)

ParseItems(toks, i, acc) ==
  IF toks[i] = "]" THEN [v |-> acc, n |-> i + 1]
  ELSE LET r == ParseValue(toks, i)
       IN  ParseItems(toks, r.n, Append(acc, r.v))

json_loads(toks) == ParseValue(toks, 1).v

(* from_payload(message).apply(device): outcome of a dispatch task.        *)
from_payload(kind) == IF kind = "valid" THEN "applied" ELSE "failed"

(* _validate_hostname(hostname): TRUE when it returns, FALSE when it      *)
(* raises ValueError ("if not hostname").                                  *)
validate_hostname_Accepts(hostname) == TRUE

validate_hostname(hostname) == hostname \notin {"", "None"}

(* No IpcdClient(...) call made yet for this client.                       *)
NoClient == [st |-> "new", arg |-> "unset", attrs |-> {}]

(* IpcdClient.__init__(hostname): the validation first, then the           *)
(* attributes.  st is "raised" when the constructor raised: no object.     *)
IpcdClient(hostname) ==
  IF validate_hostname(hostname)
    THEN [st |-> "built", arg |-> hostname, attrs |-> ClientAttrs]
    ELSE [st |-> "raised", arg |-> hostname, attrs |-> {}]

Built(k) == self[k].st = "built"

(* Device.to_obj(): reads self.ipcd_version, which raises AttributeError   *)
(* on an object that has no such attribute.                                *)
NoObj == [ipcdver |-> "-", vendor |-> "-", model |-> "-", sn |-> "-"]

to_obj(device) ==
  IF "ipcd_version" \in DOMAIN device
    THEN [exc |-> "none",
          value |-> [ipcdver |-> device.ipcd_version, vendor |-> device.vendor,
                     model |-> device.model, sn |-> device.sn]]
    ELSE [exc |-> "AttributeError", value |-> NoObj]

(* json.dumps of an identity object, as a sequence of tokens.              *)
json_dumps_obj(obj) ==
  << "{", "ipcdver", obj.ipcdver, "vendor", obj.vendor, "model", obj.model,
     "sn", obj.sn, "}" >>

(* No Device(...) is under construction.                                   *)
NoProbe == [stage |-> "idle", args |-> << >>, dev |-> << >>,
            obj |-> [exc |-> "none", value |-> NoObj], text |-> << >>,
            back |-> NoObj]

(* ------------------------------- Init ---------------------------------- *)
FieldsInit ==
  /\ devices = << >>
  /\ queue = << >>
  /\ getters = << >>
  /\ loopOwner = 0
  /\ nconn = 0
  /\ cl = [c \in Conns |-> "Disconnected"]
  /\ regIdx = [c \in Conns |-> 1]
  /\ sock = [c \in Conns |-> "none"]
  /\ wire = [c \in Conns |-> << >>]
  /\ inbound = [c \in Conns |-> << >>]
  /\ rd = [c \in Conns |-> "none"]
  /\ wr = [c \in Conns |-> "none"]
  /\ held = [c \in Conns |-> NoItem]
  /\ tasks = << >>
  /\ calls = << >>
  /\ nsent = 0
  /\ ndisc = 0
  /\ backref = [d \in DeviceObjs |-> "None"]
  /\ otherDevices = << >>

(* Client A has been constructed; no other object is being built.          *)
Init ==
  /\ FieldsInit
  /\ self = [k \in ClientIds |-> IF k = "A" THEN IpcdClient("wss://host")
                                             ELSE NoClient]
  /\ probe = NoProbe

(* The caller and the server may still act.                                *)
InputLeft == Len(devices) + Len(calls) + nsent + ndisc < MaxInputs

(* --------------------------- event loop -------------------------------- *)
LoopRunning == loopOwner # 0

(* run_until_complete returns when the connect_loop it runs is done.       *)
Release(c) == IF loopOwner = c THEN 0 ELSE loopOwner

(* The loop is blocked in select(): no task of it can take a step.         *)
LoopIdle ==
  /\ \A c \in Conns :
       /\ cl[c] # "Registering"
       /\ ~(cl[c] = "Active" /\ sock[c] = "closed")
       /\ ~(rd[c] = "recv" /\ (inbound[c] # << >> \/ sock[c] = "closed"))
       /\ wr[c] \notin {"get", "send"}
  /\ \A i \in 1..Len(tasks) : tasks[i].st # "pending"

(* An I/O event wakes the loop: it then runs every callback in _ready,     *)
(* also those another thread appended without waking it.                   *)
Notice(w) == [c \in Conns |-> IF w[c] = "lost" THEN "get" ELSE w[c]]

(* --------------------------- caller: registry -------------------------- *)
add_device_AtFront(device) ==
  /\ InputLeft
  /\ Len(devices) < MaxDevices
  /\ backref' = [backref EXCEPT ![device] = "A"]
  /\ devices' = << device >> \o devices
  /\ UNCHANGED objVars
  /\ UNCHANGED << queue, getters, loopOwner, nconn, connVars, tasks, calls, nsent, ndisc >>

(* add_device of client A, the client whose session is modelled.           *)
add_device(device) ==
  /\ InputLeft
  /\ Len(devices) < MaxDevices
  /\ backref' = [backref EXCEPT ![device] = "A"]
  /\ devices' = Append(devices, device)
  /\ UNCHANGED objVars
  /\ UNCHANGED << queue, getters, loopOwner, nconn, connVars, tasks, calls, nsent, ndisc >>

(* --------------------------- caller: enqueue --------------------------- *)

(* put_nowait putting the item at the head of the queue instead.          *)
put_nowait_AtHead(item, lost) ==
  /\ queue' = << item >> \o queue
  /\ IF getters # << >>
       THEN /\ getters' = Tail(getters)
            /\ wr' = [wr EXCEPT ![Head(getters)] =
                        IF lost /\ LoopRunning /\ LoopIdle THEN "lost" ELSE "get"]
       ELSE UNCHANGED << getters, wr >>

(* queue.put_nowait(payload): append the item, wake the first getter.  The *)
(* caller is not the loop's thread, and the future's callback is scheduled *)
(* with call_soon: a loop blocked in select() is not woken by it.          *)
put_nowait(item, lost) ==
  /\ queue' = Append(queue, item)
  /\ IF getters # << >>
       THEN /\ getters' = Tail(getters)
            /\ wr' = [wr EXCEPT ![Head(getters)] =
                        IF lost /\ LoopRunning /\ LoopIdle THEN "lost" ELSE "get"]
       ELSE UNCHANGED << getters, wr >>

Enqueue(op, device, message, text) ==
  /\ InputLeft
  /\ Len(calls) < MaxCalls
  /\ calls' = Append(calls, [op |-> op, device |-> device, message |-> message])
  /\ IF Serializable(message)
       THEN \E lost \in BOOLEAN :
              put_nowait([id |-> Len(calls) + 1, payload |-> text], lost)
       ELSE UNCHANGED << queue, getters, wr >>
  /\ UNCHANGED << backref, objVars >>
  /\ UNCHANGED << devices, loopOwner, nconn, cl, regIdx, sock, wire, inbound,
                  rd, held, tasks, nsent, ndisc >>

on_value_change(device, message) ==
  Enqueue("on_value_change", device, message, ValueChangeText(device, message))

report(device, message) ==
  Enqueue("report", device, message, ReportText(device, message))

(* --------------------------- caller: session --------------------------- *)

(* connect(): a new thread calls loop.run_until_complete(connect_loop()) on *)
(* the loop of the calling thread, the same loop for every call.  With the *)
(* loop stopped the thread runs connect_loop on it.  With the loop running *)
(* (an earlier attempt is not over) run_until_complete raises RuntimeError *)
(* in the new thread before the coroutine is started: the attempt never    *)
(* leaves Disconnected.                                                    *)
connect ==
  /\ nconn < MaxConn
  /\ nconn' = nconn + 1
  /\ IF ~LoopRunning
       THEN /\ loopOwner' = nconn + 1
            /\ cl' = [cl EXCEPT ![nconn + 1] = "Connecting"]
       ELSE UNCHANGED << loopOwner, cl >>
  /\ UNCHANGED << backref, objVars >>
  /\ UNCHANGED << devices, queue, getters, regIdx, sock, wire, inbound, rd, wr,
                  held, tasks, calls, nsent, ndisc >>

(* disconnect(): pass                                                      *)
disconnect ==
  /\ InputLeft
  /\ ndisc < MaxDisc
  /\ ndisc' = ndisc + 1
  /\ UNCHANGED << backref, objVars >>
  /\ UNCHANGED << devices, queue, getters, loopOwner, nconn, connVars, tasks,
                  calls, nsent >>

(* ---------------------------- connect_loop ----------------------------- *)

(* Establish creating the reader and the writer task before the handshake. *)
Establish_StartsLoops(c) ==
  /\ LoopRunning
  /\ cl[c] = "Connecting"
  /\ cl' = [cl EXCEPT ![c] = "Registering"]
  /\ sock' = [sock EXCEPT ![c] = "open"]
  /\ regIdx' = [regIdx EXCEPT ![c] = 1]
  /\ rd' = [rd EXCEPT ![c] = "recv"]
  /\ wr' = [Notice(wr) EXCEPT ![c] = "get"]
  /\ UNCHANGED << backref, objVars >>
  /\ UNCHANGED << devices, queue, getters, loopOwner, nconn, wire, inbound,
                  held, tasks, calls, nsent, ndisc >>

(* websockets.connect(...) succeeds.                                       *)
Establish(c) ==
  /\ LoopRunning
  /\ cl[c] = "Connecting"
  /\ cl' = [cl EXCEPT ![c] = "Registering"]
  /\ sock' = [sock EXCEPT ![c] = "open"]
  /\ regIdx' = [regIdx EXCEPT ![c] = 1]
  /\ wr' = Notice(wr)
  /\ UNCHANGED << backref, objVars >>
  /\ UNCHANGED << devices, queue, getters, loopOwner, nconn, wire, inbound, rd,
                  held, tasks, calls, nsent, ndisc >>

(* websockets.connect(...) raises: connect_loop ends.                      *)
ConnectFail(c) ==
  /\ LoopRunning
  /\ cl[c] = "Connecting"
  /\ cl' = [cl EXCEPT ![c] = "Closed"]
  /\ loopOwner' = Release(c)
  /\ wr' = Notice(wr)
  /\ UNCHANGED << backref, objVars >>
  /\ UNCHANGED << devices, queue, getters, nconn, regIdx, sock, wire, inbound,
                  rd, held, tasks, calls, nsent, ndisc >>

(* Register announcing the first device of the registry in every iteration. *)
Register_FirstDevice(c) ==
  /\ LoopRunning
  /\ cl[c] = "Registering"
  /\ regIdx[c] <= Len(devices)
  /\ IF sock[c] = "open"
       THEN /\ wire' = [wire EXCEPT ![c] =
                 Append(@, [id |-> 0, payload |-> RegistrationText(devices[1])])]
            /\ regIdx' = [regIdx EXCEPT ![c] = @ + 1]
            /\ UNCHANGED << cl, loopOwner >>
       ELSE /\ cl' = [cl EXCEPT ![c] = "Closed"]
            /\ loopOwner' = Release(c)
            /\ UNCHANGED << wire, regIdx >>
  /\ UNCHANGED << backref, objVars >>
  /\ UNCHANGED << devices, queue, getters, nconn, sock, inbound, rd, wr, held,
                  tasks, calls, nsent, ndisc >>

(* One iteration of 'for device in self.devices': await websocket.send.    *)
(* On a closed websocket send raises and connect_loop ends.                *)
Register(c) ==
  /\ LoopRunning
  /\ cl[c] = "Registering"
  /\ regIdx[c] <= Len(devices)
  /\ IF sock[c] = "open"
       THEN /\ wire' = [wire EXCEPT ![c] =
                 Append(@, [id |-> 0,
                            payload |-> RegistrationText(devices[regIdx[c]])])]
            /\ regIdx' = [regIdx EXCEPT ![c] = @ + 1]
            /\ UNCHANGED << cl, loopOwner >>
       ELSE /\ cl' = [cl EXCEPT ![c] = "Closed"]
            /\ loopOwner' = Release(c)
            /\ UNCHANGED << wire, regIdx >>
  /\ UNCHANGED << backref, objVars >>
  /\ UNCHANGED << devices, queue, getters, nconn, sock, inbound, rd, wr, held,
                  tasks, calls, nsent, ndisc >>

(* The for-loop is exhausted: create_task(reader), create_task(writer),    *)
(* then await websocket.wait_closed().                                     *)
StartLoops(c) ==
  /\ LoopRunning
  /\ cl[c] = "Registering"
  /\ regIdx[c] > Len(devices)
  /\ cl' = [cl EXCEPT ![c] = "Active"]
  /\ rd' = [rd EXCEPT ![c] = "recv"]
  /\ wr' = [wr EXCEPT ![c] = "get"]
  /\ UNCHANGED << backref, objVars >>
  /\ UNCHANGED << devices, queue, getters, loopOwner, nconn, regIdx, sock, wire,
                  inbound, held, tasks, calls, nsent,
                  ndisc >>

(* WaitClosed connecting again instead of ending the attempt.              *)
WaitClosed_Reconnects(c) ==
  /\ LoopRunning
  /\ cl[c] = "Active"
  /\ sock[c] = "closed"
  /\ cl' = [cl EXCEPT ![c] = "Connecting"]
  /\ UNCHANGED << backref, objVars >>
  /\ UNCHANGED << devices, queue, getters, loopOwner, nconn, regIdx, sock, wire,
                  inbound, rd, wr, held, tasks, calls, nsent, ndisc >>

(* wait_closed() returns: connect_loop ends, and with it the                *)
(* run_until_complete of its thread.  The reader and the writer task are   *)
(* not cancelled.                                                          *)
WaitClosed(c) ==
  /\ LoopRunning
  /\ cl[c] = "Active"
  /\ sock[c] = "closed"
  /\ cl' = [cl EXCEPT ![c] = "Closed"]
  /\ loopOwner' = Release(c)
  /\ UNCHANGED << backref, objVars >>
  /\ UNCHANGED << devices, queue, getters, nconn, regIdx, sock, wire, inbound,
                  rd, wr, held, tasks, calls, nsent, ndisc >>

(* ------------------------------- reader -------------------------------- *)

(* The reader awaiting the handler of a message before it reads the next.  *)
Read_AwaitsHandler(c) ==
  /\ LoopRunning
  /\ rd[c] = "recv"
  /\ sock[c] = "open"
  /\ inbound[c] # << >>
  /\ \A i \in 1..Len(tasks) : tasks[i].st # "pending"
  /\ inbound' = [inbound EXCEPT ![c] = Tail(@)]
  /\ IF Head(inbound[c]) = "notjson" \/ devices = << >>
       THEN /\ rd' = [rd EXCEPT ![c] = "done"]
            /\ UNCHANGED tasks
       ELSE /\ tasks' = Append(tasks, [conn |-> c, device |-> devices[1],
                                       kind |-> Head(inbound[c]),
                                       st |-> "pending"])
            /\ UNCHANGED rd
  /\ UNCHANGED << backref, objVars >>
  /\ UNCHANGED << devices, queue, getters, loopOwner, nconn, cl, regIdx, sock,
                  wire, wr, held, calls, nsent, ndisc >>

(* msg = await websocket.recv();                                           *)
(* loop.create_task(self.devices[0].on_message(json.loads(msg)))           *)
(* json.loads and self.devices[0] are evaluated in the reader itself: text *)
(* that is no JSON raises JSONDecodeError there, an empty registry raises  *)
(* IndexError there, and either ends the reader task.                      *)
Read(c) ==
  /\ LoopRunning
  /\ rd[c] = "recv"
  /\ sock[c] = "open"
  /\ inbound[c] # << >>
  /\ inbound' = [inbound EXCEPT ![c] = Tail(@)]
  /\ IF Head(inbound[c]) = "notjson" \/ devices = << >>
       THEN /\ rd' = [rd EXCEPT ![c] = "done"]
            /\ UNCHANGED tasks
       ELSE /\ tasks' = Append(tasks, [conn |-> c, device |-> devices[1],
                                       kind |-> Head(inbound[c]),
                                       st |-> "pending"])
            /\ UNCHANGED rd
  /\ UNCHANGED << backref, objVars >>
  /\ UNCHANGED << devices, queue, getters, loopOwner, nconn, cl, regIdx, sock,
                  wire, wr, held, calls, nsent, ndisc >>

(* recv() on a closed websocket raises ConnectionClosed: the reader ends.  *)
ReaderClosed(c) ==
  /\ LoopRunning
  /\ rd[c] = "recv"
  /\ sock[c] = "closed"
  /\ rd' = [rd EXCEPT ![c] = "done"]
  /\ UNCHANGED << backref, objVars >>
  /\ UNCHANGED << devices, queue, getters, loopOwner, nconn, cl, regIdx, sock,
                  wire, inbound, wr, held, tasks, calls,
                  nsent, ndisc >>

(* Device.on_message(message) run as its own task.                         *)
on_message(i) ==
  /\ LoopRunning
  /\ i \in 1..Len(tasks)
  /\ tasks[i].st = "pending"
  /\ tasks' = [tasks EXCEPT ![i].st = from_payload(tasks[i].kind)]
  /\ UNCHANGED << backref, objVars >>
  /\ UNCHANGED << devices, queue, getters, loopOwner, nconn, connVars, calls, nsent, ndisc >>

(* ------------------------------- writer -------------------------------- *)

(* msg = await self.queue.get(): take the oldest item, or suspend as the   *)
(* last of queue._getters while the queue is empty.                        *)
WriterGet(c) ==
  /\ LoopRunning
  /\ wr[c] = "get"
  /\ IF queue # << >>
       THEN /\ held' = [held EXCEPT ![c] = Head(queue)]
            /\ queue' = Tail(queue)
            /\ wr' = [wr EXCEPT ![c] = "send"]
            /\ UNCHANGED getters
       ELSE /\ wr' = [wr EXCEPT ![c] = "parked"]
            /\ getters' = Append(getters, c)
            /\ UNCHANGED << held, queue >>
  /\ UNCHANGED << backref, objVars >>
  /\ UNCHANGED << devices, loopOwner, nconn, cl, regIdx, sock, wire, inbound,
                  rd, tasks, calls, nsent, ndisc >>

(* await websocket.send(msg): written to the websocket of this writer, or  *)
(* ConnectionClosed on a closed one, which ends the writer task.           *)
WriterSend(c) ==
  /\ LoopRunning
  /\ wr[c] = "send"
  /\ IF sock[c] = "open"
       THEN /\ wire' = [wire EXCEPT ![c] = Append(@, held[c])]
            /\ wr' = [wr EXCEPT ![c] = "get"]
       ELSE /\ wr' = [wr EXCEPT ![c] = "done"]
            /\ UNCHANGED wire
  /\ held' = [held EXCEPT ![c] = NoItem]
  /\ UNCHANGED << backref, objVars >>
  /\ UNCHANGED << devices, queue, getters, loopOwner, nconn, cl, regIdx, sock,
                  inbound, rd, tasks, calls, nsent, ndisc >>

(* ----------------------------- environment ----------------------------- *)

(* The server sends a text on an open websocket.                           *)
ServerSend(c, kind) ==
  /\ sock[c] = "open"
  /\ InputLeft
  /\ nsent < MaxInbound
  /\ nsent' = nsent + 1
  /\ inbound' = [inbound EXCEPT ![c] = Append(@, kind)]
  /\ wr' = Notice(wr)
  /\ UNCHANGED << backref, objVars >>
  /\ UNCHANGED << devices, queue, getters, loopOwner, nconn, cl, regIdx, sock,
                  wire, rd, held, tasks, calls, ndisc >>

(* The websocket is closed by the peer or fails.                           *)
SocketClose(c) ==
  /\ sock[c] = "open"
  /\ sock' = [sock EXCEPT ![c] = "closed"]
  /\ inbound' = [inbound EXCEPT ![c] = << >>]
  /\ wr' = Notice(wr)
  /\ UNCHANGED << backref, objVars >>
  /\ UNCHANGED << devices, queue, getters, loopOwner, nconn, cl, regIdx, wire,
                  rd, held, tasks, calls, nsent, ndisc >>

(* ---------------------------- specification ---------------------------- *)
LoopStep(c) ==
  \/ Register(c)
  \/ StartLoops(c)
  \/ WaitClosed(c)
  \/ Read(c)
  \/ ReaderClosed(c)
  \/ WriterGet(c)
  \/ WriterSend(c)

Next ==
  \/ \E device \in DeviceObjs : add_device(device)
  \/ \E device \in DeviceObjs, message \in Payloads :
       on_value_change(device, message)
  \/ \E device \in DeviceObjs, message \in Payloads : report(device, message)
  \/ connect
  \/ disconnect
  \/ \E c \in Conns : Establish(c)
  \/ \E c \in Conns : ConnectFail(c)
  \/ \E c \in Conns : LoopStep(c)
  \/ \E i \in 1..MaxInbound : on_message(i)
  \/ \E c \in Conns, kind \in InboundKinds : ServerSend(c, kind)
  \/ \E c \in Conns : SocketClose(c)

Spec == Init /\ [][Next]_vars

(* The event loop runs every task that can take a step.  The caller, the   *)
(* server and the network are not obliged to do anything.                  *)
FairSpec ==
  /\ Spec
  /\ \A c \in Conns : WF_vars(LoopStep(c))
  /\ WF_vars(\E i \in 1..MaxInbound : on_message(i))

(* ---------------------- objects: clients and devices ------------------- *)

(* The caller's k-th IpcdClient(hostname).                                 *)
IpcdClient_init(k, hostname) ==
  /\ self[k].st = "new"
  /\ self' = [self EXCEPT ![k] = IpcdClient(hostname)]
  /\ UNCHANGED << fieldVars, backref, otherDevices, probe >>

(* add_device of client B: device._set_client(B); B.devices.append(device) *)
other_add_device(device) ==
  /\ Built("B")
  /\ Len(otherDevices) < MaxDevices
  /\ backref' = [backref EXCEPT ![device] = "B"]
  /\ otherDevices' = Append(otherDevices, device)
  /\ UNCHANGED << fieldVars, self, probe >>

(* Before any client is constructed.                                       *)
FacadeInit ==
  /\ FieldsInit
  /\ self = [k \in ClientIds |-> NoClient]
  /\ probe = NoProbe

(* The calls on objects: a method of a client can be called only on a      *)
(* client that was constructed.                                            *)
FacadeNext ==
  \/ \E k \in ClientIds, hostname \in Hostnames : IpcdClient_init(k, hostname)
  \/ \E device \in DeviceObjs : Built("A") /\ add_device(device)
  \/ \E device \in DeviceObjs : other_add_device(device)
  \/ Built("A") /\ connect

FacadeSpec == FacadeInit /\ [][FacadeNext]_vars

(* Device(vendor, model, sn, ipcd_version)                                 *)
Device_init ==
  /\ probe.stage = "args"
  /\ probe' = [probe EXCEPT !.stage = "built",
                            !.dev = Device(probe.args.vendor, probe.args.model,
                                           probe.args.sn, probe.args.ipcd_version)]
  /\ UNCHANGED << fieldVars, self, backref, otherDevices >>

(* device.to_obj()                                                         *)
Device_to_obj ==
  /\ probe.stage = "built"
  /\ probe' = [probe EXCEPT !.stage = "obj", !.obj = to_obj(probe.dev)]
  /\ UNCHANGED << fieldVars, self, backref, otherDevices >>

(* json.dumps of the object to_obj returned                                *)
Device_dumps ==
  /\ probe.stage = "obj"
  /\ probe.obj.exc = "none"
  /\ probe' = [probe EXCEPT !.stage = "text",
                            !.text = json_dumps_obj(probe.obj.value)]
  /\ UNCHANGED << fieldVars, self, backref, otherDevices >>

(* json.loads of that text                                                 *)
Device_loads ==
  /\ probe.stage = "text"
  /\ probe' = [probe EXCEPT !.stage = "back", !.back = json_loads(probe.text)]
  /\ UNCHANGED << fieldVars, self, backref, otherDevices >>

(* The caller is about to build a device from any arguments.               *)
DeviceInit ==
  /\ FieldsInit
  /\ self = [k \in ClientIds |-> IF k = "A" THEN IpcdClient("wss://host")
                                             ELSE NoClient]
  /\ \E args \in DeviceArgs : probe = [NoProbe EXCEPT !.stage = "args", !.args = args]

DeviceNext ==
  \/ Device_init
  \/ Device_to_obj
  \/ Device_dumps
  \/ Device_loads

DeviceSpec == DeviceInit /\ [][DeviceNext]_vars

TypeOK ==
  /\ self \in [ClientIds -> [st : {"new", "raised", "built"},
                             arg : Hostnames \cup {"unset"},
                             attrs : SUBSET ClientAttrs]]
  /\ backref \in [DeviceObjs -> {"None", "A", "B"}]
  /\ Len(otherDevices) <= MaxDevices
  /\ Len(devices) <= MaxDevices
  /\ loopOwner \in 0..MaxConn
  /\ nconn \in 0..MaxConn
  /\ \A c \in Conns :
       /\ cl[c] \in {"Disconnected", "Connecting", "Registering", "Active", "Closed"}
       /\ sock[c] \in {"none", "open", "closed"}
       /\ rd[c] \in {"none", "recv", "done"}
       /\ wr[c] \in {"none", "get", "parked", "lost", "send", "done"}
  /\ Len(calls) <= MaxCalls

(* ------------------------- derived observations ------------------------ *)

(* The item the i-th on_value_change / report call put on the queue.       *)
ItemFor(call, i) ==
  [id |-> i,
   payload |-> IF call.op = "on_value_change"
                 THEN ValueChangeText(call.device, call.message)
                 ELSE ReportText(call.device, call.message)]

ItemOf(i) == ItemFor(calls[i], i)

(* The calls that put an item on the queue, by their position in 'calls'.  *)
EnqueuedIds == { i \in 1..Len(calls) : Serializable(calls[i].message) }

(* The queued items written to the websocket of c, registration left out.  *)
WrittenIds(c) == { wire[c][k].id : k \in 1..Len(wire[c]) } \ {0}

AllWrittenIds == UNION { WrittenIds(c) : c \in Conns }

QueuedIds == { queue[k].id : k \in 1..Len(queue) }

(* The handshake of a whole registry.                                      *)
RegistrationsOf(devs) ==
  [k \in 1..Len(devs) |-> [id |-> 0, payload |-> RegistrationText(devs[k])]]

ActiveOpen(c) == cl[c] = "Active" /\ sock[c] = "open"

Live(pc) == pc \notin {"none", "done"}

(* ------------------------------- claims -------------------------------- *)

(* C1: the queued messages written to the socket are at every moment a     *)
(* prefix of the enqueue order: every written message was enqueued, none   *)
(* is written twice, and none is written while an earlier enqueued one is  *)
(* still unwritten.                                                        *)
C1_WrittenIsPrefixOfEnqueued ==
  /\ AllWrittenIds \subseteq EnqueuedIds
  /\ \A i \in AllWrittenIds : \A j \in EnqueuedIds : j < i => j \in AllWrittenIds
  /\ \A c \in Conns : \A k, l \in 1..Len(wire[c]) :
       (k < l /\ wire[c][l].id # 0) => wire[c][k].id < wire[c][l].id
  /\ \A c, d \in Conns : c # d => WrittenIds(c) \cap WrittenIds(d) = {}
  /\ \A c \in Conns : \A k \in 1..Len(wire[c]) :
       wire[c][k].id # 0 => wire[c][k] = ItemOf(wire[c][k].id)

(* C2: when a connection completes its handshake, what it has written to   *)
(* the socket is exactly one registration message per device of the        *)
(* registry, in add_device order (nothing for an empty registry).          *)
C2_HandshakeIsRegistry ==
  [][\A c \in Conns :
       (cl[c] = "Registering" /\ cl'[c] = "Active")
         => wire'[c] = RegistrationsOf(devices')]_vars

C2_Witness ==
  \E c \in Conns :
    /\ cl[c] = "Active"
    /\ Len(devices) = 2
    /\ devices[1] # devices[2]
    /\ wire[c] = RegistrationsOf(devices)

(* C3: before the handshake of a connection is complete its reader and its *)
(* writer do not exist: no queued message has been written to its socket   *)
(* and no inbound message has been read or dispatched; on the socket every *)
(* registration message precedes every queued message.                     *)
C3_NoTrafficBeforeHandshake ==
  \A c \in Conns :
    /\ cl[c] \in {"Disconnected", "Connecting", "Registering"}
         => /\ WrittenIds(c) = {}
            /\ rd[c] = "none"
            /\ wr[c] = "none"
            /\ held[c] = NoItem
            /\ \A i \in 1..Len(tasks) : tasks[i].conn # c
    /\ \A k, l \in 1..Len(wire[c]) :
         (k < l /\ wire[c][l].id = 0) => wire[c][k].id = 0

C3_Witness ==
  \E c \in Conns :
    /\ cl[c] = "Registering"
    /\ Len(wire[c]) >= 1
    /\ queue # << >>
    /\ inbound[c] # << >>

(* C4: a JSON object without discriminator that the reader reads leaves    *)
(* the reader running and the socket open.                                 *)
C4_MalformedKeepsReader ==
  [][\A c \in Conns :
       ( /\ rd[c] = "recv"
         /\ inbound[c] # << >>
         /\ Head(inbound[c]) = "nodisc"
         /\ inbound'[c] = Tail(inbound[c])
         /\ sock'[c] = "open" )
         => rd'[c] = "recv"]_vars

(* C5: while a session is Active on an open socket, a message in the queue *)
(* is eventually written to a socket.                                      *)
C5_EnqueuedIsWritten ==
  \A i \in 1..MaxCalls :
    (i \in QueuedIds /\ \E c \in Conns : ActiveOpen(c))
      ~> (i \in AllWrittenIds \/ ~(\E c \in Conns : ActiveOpen(c)))

(* C6: disconnect() on an Active session closes its socket.                *)
C6_DisconnectCloses ==
  [][\A c \in Conns :
       (ndisc' = ndisc + 1 /\ ActiveOpen(c)) => sock'[c] = "closed"]_vars

(* C7: once the socket has signalled closure and the session has ended,    *)
(* neither the reader nor the writer of that session is left pending.      *)
C7_ClosedEndsLoops ==
  \A c \in Conns :
    (cl[c] = "Closed" /\ ~LoopRunning) => (~Live(rd[c]) /\ ~Live(wr[c]))

(* C8: at most one socket, one reader and one writer are alive at a time.  *)
C8_OneLiveAttempt ==
  /\ Cardinality({ c \in Conns : sock[c] = "open" }) <= 1
  /\ Cardinality({ c \in Conns : Live(rd[c]) }) <= 1
  /\ Cardinality({ c \in Conns : Live(wr[c]) }) <= 1

(* C9: a session steps only to the next phase of                           *)
(* Disconnected, Connecting, Registering, Active, Closed, and once Closed  *)
(* neither its phase nor its socket changes and nothing is sent on it.     *)
PhaseSucc ==
  { <<"Disconnected", "Connecting">>, <<"Connecting", "Registering">>,
    <<"Registering", "Active">>, <<"Active", "Closed">> }

ClosedIsTerminal(c) ==
  cl[c] = "Closed" => (cl'[c] = "Closed" /\ sock'[c] = sock[c] /\ wire'[c] = wire[c])

C9_PhaseChain ==
  [][\A c \in Conns :
       /\ cl'[c] # cl[c] => << cl[c], cl'[c] >> \in PhaseSucc
       /\ ClosedIsTerminal(c)]_vars

(* C9 amended: as C9, but an attempt whose connect or handshake fails goes *)
(* from Connecting or Registering straight to Closed.                      *)
C9_PhaseChainOrFailure ==
  [][\A c \in Conns :
       /\ cl'[c] # cl[c]
            => << cl[c], cl'[c] >> \in
                 PhaseSucc \cup { <<"Connecting", "Closed">>,
                                  <<"Registering", "Closed">> }
       /\ (cl[c] = "Active" /\ cl'[c] = "Closed") => sock[c] = "closed"
       /\ ClosedIsTerminal(c)]_vars

C9_Witness ==
  /\ cl[1] = "Closed"
  /\ wr[1] # "none"
  /\ cl[2] = "Active"

(* C10: every on_value_change / report call appends exactly one envelope   *)
(* to the tail of the queue and changes neither the items already queued,  *)
(* nor the registry, nor any session's phase.                              *)
C10_CallAppendsOne ==
  [][Len(calls') = Len(calls) + 1
       => /\ queue' = Append(queue, ItemFor(calls'[Len(calls')], Len(calls')))
          /\ devices' = devices
          /\ cl' = cl
          /\ sock' = sock]_vars

(* C10 amended: so it is for a payload that can be serialized; a call with *)
(* a payload that cannot be serialized leaves the queue as it was.         *)
C10_SerializableCallAppendsOne ==
  [][Len(calls') = Len(calls) + 1
       => /\ IF Serializable(calls'[Len(calls')].message)
               THEN queue' = Append(queue, ItemFor(calls'[Len(calls')], Len(calls')))
               ELSE queue' = queue
          /\ devices' = devices
          /\ cl' = cl
          /\ sock' = sock]_vars

C10_Witness ==
  /\ Len(queue) = 2
  /\ \E c \in Conns : cl[c] = "Closed"
  /\ \E c \in Conns : cl[c] = "Active"

(* The identity a message must carry for a device.                         *)
IdentityOf(device) ==
  [ipcdver |-> "1.0", vendor |-> device.vendor, model |-> device.model,
   sn |-> device.sn]

(* What the envelope of the i-th call must be, once parsed.                *)
EnvelopeOfCall(i) ==
  IF calls[i].op = "on_value_change"
    THEN [device |-> IdentityOf(calls[i].device),
          events |-> << "onValueChanges" >>,
          valueChanges |-> calls[i].message]
    ELSE [device |-> IdentityOf(calls[i].device), report |-> calls[i].message]

EnvelopeOK(item) == json_loads(item.payload) = EnvelopeOfCall(item.id)

(* C11: every message in the queue, in a writer's hands or on a socket     *)
(* parses to an envelope with the full identity of its device: a           *)
(* registration to device and events [onBoot, onConnect], a value change   *)
(* to device, events [onValueChanges] and the caller's valueChanges, a     *)
(* report to device and report only.                                       *)
C11_EnvelopesCarryIdentity ==
  /\ \A k \in 1..Len(queue) : EnvelopeOK(queue[k])
  /\ \A c \in Conns : held[c] # NoItem => EnvelopeOK(held[c])
  /\ \A c \in Conns : \A k \in 1..Len(wire[c]) :
       IF wire[c][k].id = 0
         THEN json_loads(wire[c][k].payload) =
                [device |-> IdentityOf(devices[k]),
                 events |-> << "onBoot", "onConnect" >>]
         ELSE EnvelopeOK(wire[c][k])

C11_Witness ==
  /\ \E k \in 1..Len(queue) :
       json_loads(queue[k].payload) =
         [device |-> [ipcdver |-> "1.0", vendor |-> "Acme", model |-> "X1",
                      sn |-> "123"],
          events |-> << "onValueChanges" >>,
          valueChanges |-> "temp72"]
  /\ \E c \in Conns : \E k \in 1..Len(wire[c]) : wire[c][k].id # 0
  /\ \E c \in Conns : \E k \in 1..Len(wire[c]) : wire[c][k].id = 0

(* C14: a call whose payload cannot be serialized enqueues nothing: the    *)
(* queue, its waiting writers, every session and every dispatch task are   *)
(* as they were before the call.                                           *)
C14_UnserializableEnqueuesNothing ==
  [][(Len(calls') = Len(calls) + 1 /\ calls'[Len(calls')].message = BadPayload)
       => /\ queue' = queue
          /\ getters' = getters
          /\ connVars' = connVars
          /\ tasks' = tasks
          /\ devices' = devices
          /\ loopOwner' = loopOwner]_vars

C14_Witness ==
  /\ Len(calls) = 2
  /\ calls[1].message = GoodPayload
  /\ calls[2].message = BadPayload
  /\ queue = << ItemOf(1) >>
  /\ \E c \in Conns : ActiveOpen(c)

(* A step in which the reader of c reads the oldest inbound message.       *)
ReadStep(c) ==
  /\ rd[c] = "recv"
  /\ inbound[c] # << >>
  /\ inbound'[c] = Tail(inbound[c])
  /\ sock'[c] = "open"

(* C16: whatever inbound message the reader reads, the reader goes on.     *)
C16_ReaderSurvivesAnyMessage ==
  [][\A c \in Conns : ReadStep(c) => rd'[c] = "recv"]_vars

(* C17: with a device registered, every message the reader reads creates   *)
(* exactly one dispatch task, for the first device of the registry.        *)
C17_EveryMessageToFirstDevice ==
  [][\A c \in Conns :
       (ReadStep(c) /\ devices # << >>)
         => /\ Len(tasks') = Len(tasks) + 1
            /\ SubSeq(tasks', 1, Len(tasks)) = tasks
            /\ tasks'[Len(tasks')] =
                 [conn |-> c, device |-> devices[1],
                  kind |-> Head(inbound[c]), st |-> "pending"]]_vars

(* C18: a dispatch task that has not completed holds up neither the reader *)
(* nor the writer: each can take its next step.                            *)
C18_DispatchDoesNotStall ==
  \A c \in Conns :
    (LoopRunning /\ \E i \in 1..Len(tasks) : tasks[i].st = "pending")
      => /\ (rd[c] = "recv" /\ sock[c] = "open" /\ inbound[c] # << >>)
              => ENABLED Read(c)
         /\ wr[c] = "get" => ENABLED WriterGet(c)
         /\ wr[c] = "send" => ENABLED WriterSend(c)

C18_Witness ==
  /\ Len(tasks) = 2
  /\ tasks[1].st = "pending"
  /\ tasks[2].st = "pending"

(* C20: every enqueued message is on a socket, in the queue, or in the     *)
(* hands of a writer that is sending it.                                   *)
HeldIds == { held[c].id : c \in Conns } \ {0}

C20_NoMessageDisappears ==
  EnqueuedIds = AllWrittenIds \cup QueuedIds \cup HeldIds

(* C12: add_device appends the device at the end of the registry, keeping  *)
(* the entries already there, sets the device's back-reference to this     *)
(* client and leaves the queue and everything else alone; it never fails,  *)
(* also for a device that is already in the registry.                      *)
C12_AddDeviceAppends ==
  /\ [][(devices' # devices \/ backref' # backref)
          => \E device \in DeviceObjs :
               /\ devices' = Append(devices, device)
               /\ backref' = [backref EXCEPT ![device] = "A"]
               /\ UNCHANGED << queue, getters, loopOwner, nconn, connVars,
                               tasks, calls, nsent, ndisc, objVars >>]_vars
  /\ []((InputLeft /\ Len(devices) < MaxDevices)
          => \A device \in DeviceObjs : ENABLED add_device(device))

C12_Witness ==
  /\ Len(devices) = 2
  /\ devices[1] = devices[2]
  /\ backref[devices[1]] = "A"
  /\ queue # << >>

(* C13: a constructor call with an empty hostname raises and leaves        *)
(* nothing behind: no object, no attribute (pool, registry, queue), no     *)
(* registered device, no connection attempt and no socket.                 *)
C13_EmptyHostnameRaisesFirst ==
  \A k \in ClientIds :
    (self[k].st # "new" /\ self[k].arg = "")
      => /\ self[k].st = "raised"
         /\ self[k].attrs = {}
         /\ \A d \in DeviceObjs : backref[d] # k
         /\ k = "B" => otherDevices = << >>
         /\ k = "A" => /\ devices = << >>
                       /\ queue = << >>
                       /\ nconn = 0
                       /\ \A c \in Conns : sock[c] = "none" /\ cl[c] = "Disconnected"

C13_Witness ==
  /\ self["A"].st = "raised"
  /\ self["A"].arg = ""
  /\ Built("B")
  /\ otherDevices # << >>

(* C15: to_obj of a device built from any arguments returns the identity   *)
(* object with the version given, or the client's when none was given, and *)
(* that object comes back equal from json.dumps and json.loads.            *)
C15_ToObjRoundTrips ==
  /\ probe.stage \in {"obj", "text", "back"}
       => /\ probe.obj.exc = "none"
          /\ probe.obj.value =
               [ipcdver |-> IF probe.args.ipcd_version = "None"
                              THEN IPCD_VERSION
                              ELSE probe.args.ipcd_version,
                vendor |-> probe.args.vendor,
                model |-> probe.args.model,
                sn |-> probe.args.sn]
  /\ probe.stage = "back" => probe.back = probe.obj.value

(* C19: once set, a device's back-reference never changes.                 *)
C19_BackrefSetOnce ==
  [][\A d \in DeviceObjs : backref[d] # "None" => backref'[d] = backref[d]]_vars
====
